---------------------------- MODULE Spec2Model ----------------------------
(***************************************************************************)
(* A model of src/sitemap-generator.js: the sitemap generator that walks   *)
(* the child pages of a Notion root page, renders the tree as blocks and   *)
(* rewrites a target page with them.                                       *)
(*                                                                         *)
(* The program is sequential.  One action is one remote call (one await)   *)
(* together with the synchronous code that follows it up to the next       *)
(* remote call.  The recursion of buildSitemapTree is an explicit stack of *)
(* frames.  `log` is a history variable: the remote calls in issue order.  *)
(***************************************************************************)
EXTENDS Integers, Sequences, FiniteSets, TLC

VARIABLES
    env,        \* which of the three environment variables are set (lines 4-8)
    graph,      \* remote workspace: page id -> the blocks listed under it
    target,     \* remote target page: its children, in order
    target0,    \* history: the target page as it was before the run
    nextId,     \* remote: the id the next appended block receives
    pc,         \* position of main / updateSitemapPage
    stack,      \* call stack of buildSitemapTree, innermost frame last
    visited,    \* the `visited` Set shared by all frames of one build
    tree,       \* main's `tree` (the value buildSitemapTree returned)
    pageCount,  \* main's `pageCount`
    blocks,     \* main's `blocks` / the argument of updateSitemapPage
    pub,        \* locals of updateSitemapPage
    log,        \* history: remote calls and function entries, in order
    faults,     \* history: number of remote calls that have thrown
    exitCode    \* process exit status, -1 while running

vars == <<env, graph, target, target0, nextId, pc, stack, visited, tree, pageCount,
          blocks, pub, log, faults, exitCode>>

---------------------------------------------------------------------------
(* Program constants *)

MAX_DEPTH == 4          \* line 9
PAGE_SIZE == 100        \* line 64, page_size of the child listing
BATCH_SIZE == 100       \* lines 249-250, size of one append batch

(* Bounds of the model *)

NPages == 6             \* page ids of the workspace are 0 .. NPages-1
MaxFail == 2            \* remote calls that may throw in one run
MaxExisting == 1        \* blocks on the target page before a run of main
MaxOver == 1            \* publisher inputs lie within MaxOver of a batch edge
MaxNodes == 5           \* renderer inputs are the trees of at most MaxNodes nodes

Pages == 0 .. (NPages - 1)
ROOT_PAGE_ID == 0
DbId == -1              \* id of the child database block
NoCursor == -1          \* JS undefined / null start_cursor and next_cursor

NULL == [type |-> "null"]

Min(a, b) == IF a < b THEN a ELSE b
Range(s) == {s[j] : j \in 1 .. Len(s)}
Ids(s) == [j \in 1 .. Len(s) |-> s[j].id]

---------------------------------------------------------------------------
(* The remote document API *)

PageBlock(p) == [type |-> "child_page", id |-> p, title |-> ToString(p)]
DbBlock(t) == [type |-> "child_database", id |-> DbId, title |-> t]
ParaBlock(n) == [type |-> "paragraph", id |-> -(1 + n), title |-> ""]

\* notion.blocks.children.list: one result page of at most `size` blocks
\* starting at the cursor; next_cursor is the position to resume from.
RemoteList(listing, cursor, size) ==
    LET start == IF cursor = NoCursor THEN 0 ELSE cursor
        end == Min(start + size, Len(listing))
    IN  [results |-> SubSeq(listing, start + 1, end),
         has_more |-> end < Len(listing),
         next_cursor |-> IF end < Len(listing) THEN end ELSE NoCursor]

---------------------------------------------------------------------------
(* getPageDetails, lines 14-30 *)

UrlOf(id) == <<"https://www.notion.so/", id>>

PageDetails(pageId) ==
    [id |-> pageId, title |-> ToString(pageId), url |-> UrlOf(pageId),
     type |-> "page", lastEdited |-> "t"]

(* getChildPages, lines 54-93 *)

IsChild(block) == block.type \in {"child_page", "child_database"}

ChildItem(block) ==
    [id |-> block.id, title |-> block.title,
     type |-> IF block.type = "child_page" THEN "page" ELSE "database"]

\* lines 67-82: the loop over response.results
CollectChildren(results) ==
    LET kept == SelectSeq(results, IsChild)
    IN  [j \in 1 .. Len(kept) |-> ChildItem(kept[j])]

---------------------------------------------------------------------------
(* buildSitemapTree, lines 98-136 *)

\* line 99 with the depth cap off by one
RefusedDeep(pageId, depth, seen) == depth > MAX_DEPTH + 1 \/ pageId \in seen

\* line 99 without the visited guard
RefusedNoVisited(pageId, depth, seen) == depth > MAX_DEPTH

\* line 99
Refused(pageId, depth, seen) == depth > MAX_DEPTH \/ pageId \in seen

NewFrame(pageId, depth) ==
    [pageId |-> pageId, depth |-> depth, pc |-> "details", details |-> NULL,
     childItems |-> <<>>, hasMore |-> TRUE, startCursor |-> NoCursor,
     children |-> <<>>, i |-> 1]

\* lines 120-127
DatabaseLeaf(child, depth) ==
    [id |-> child.id,
     title |-> IF child.title = "" THEN "Untitled Database" ELSE child.title,
     url |-> UrlOf(child.id), type |-> "database", children |-> <<>>,
     depth |-> depth + 1]

\* lines 131-135
PageNode(f) ==
    [id |-> f.details.id, title |-> f.details.title, url |-> f.details.url,
     type |-> f.details.type, lastEdited |-> f.details.lastEdited,
     children |-> f.children, depth |-> f.depth]

Top == stack[Len(stack)]
Rest == SubSeq(stack, 1, Len(stack) - 1)
SetTop(f) == [stack EXCEPT ![Len(stack)] = f]

\* lines 114-117 seen from the caller: the value comes back, is pushed when
\* it is not null, and the for loop moves on.
Receive(f, value) ==
    [f EXCEPT !.children = IF value = NULL THEN @ ELSE Append(@, value),
              !.i = @ + 1]

\* A call returns `value`: to the calling frame, or to main (line 285).
ReturnValue(value) ==
    IF Len(stack) = 1
    THEN /\ stack' = <<>>
         /\ tree' = value
         /\ pc' = "built"
    ELSE /\ stack' = [Rest EXCEPT ![Len(stack) - 1] = Receive(@, value)]
         /\ UNCHANGED <<tree, pc>>

\* lines 105-106 and 26-29: notion.pages.retrieve answers
GetPageDetailsOk ==
    /\ pc = "build" /\ stack # <<>> /\ Top.pc = "details"
    /\ stack' = SetTop([Top EXCEPT !.details = PageDetails(Top.pageId),
                                   !.pc = "list"])
    /\ log' = log \o <<[op |-> "getPageDetails", id |-> Top.pageId, ok |-> TRUE],
                       [op |-> "getChildPages", id |-> Top.pageId]>>
    /\ UNCHANGED <<env, graph, target, target0, nextId, pc, visited, tree, pageCount,
                   blocks, pub, faults, exitCode>>

\* notion.pages.retrieve throws: getPageDetails returns null, line 106
GetPageDetailsFail ==
    /\ pc = "build" /\ stack # <<>> /\ Top.pc = "details"
    /\ faults < MaxFail
    /\ faults' = faults + 1
    /\ log' = Append(log, [op |-> "getPageDetails", id |-> Top.pageId, ok |-> FALSE])
    /\ ReturnValue(NULL)
    /\ UNCHANGED <<env, graph, target, target0, nextId, visited, pageCount, blocks, pub,
                   exitCode>>

\* lines 59-85 without line 85: the cursor is never moved
ListChildrenOkSameCursor ==
    /\ pc = "build" /\ stack # <<>> /\ Top.pc = "list"
    /\ LET response == RemoteList(graph[Top.pageId], Top.startCursor, PAGE_SIZE)
       IN  /\ stack' = SetTop([Top EXCEPT
                  !.childItems = @ \o CollectChildren(response.results),
                  !.hasMore = response.has_more,
                  !.pc = IF response.has_more THEN "list" ELSE "loop"])
           /\ log' = Append(log, [op |-> "list", id |-> Top.pageId,
                                  start_cursor |-> Top.startCursor, ok |-> TRUE,
                                  has_more |-> response.has_more,
                                  next_cursor |-> response.next_cursor,
                                  results |-> response.results])
    /\ UNCHANGED <<env, graph, target, target0, nextId, pc, visited, tree, pageCount,
                   blocks, pub, faults, exitCode>>

\* lines 59-85: one pass of the while loop, the listing call answers
ListChildrenOk ==
    /\ pc = "build" /\ stack # <<>> /\ Top.pc = "list"
    /\ LET response == RemoteList(graph[Top.pageId], Top.startCursor, PAGE_SIZE)
       IN  /\ stack' = SetTop([Top EXCEPT
                  !.childItems = @ \o CollectChildren(response.results),
                  !.hasMore = response.has_more,
                  !.startCursor = response.next_cursor,
                  !.pc = IF response.has_more THEN "list" ELSE "loop"])
           /\ log' = Append(log, [op |-> "list", id |-> Top.pageId,
                                  start_cursor |-> Top.startCursor, ok |-> TRUE,
                                  has_more |-> response.has_more,
                                  next_cursor |-> response.next_cursor,
                                  results |-> response.results])
    /\ UNCHANGED <<env, graph, target, target0, nextId, pc, visited, tree, pageCount,
                   blocks, pub, faults, exitCode>>

\* lines 86-89 where the catch drops what the loop had collected
ListChildrenFailDrop ==
    /\ pc = "build" /\ stack # <<>> /\ Top.pc = "list"
    /\ faults < MaxFail
    /\ faults' = faults + 1
    /\ stack' = SetTop([Top EXCEPT !.pc = "loop", !.childItems = <<>>])
    /\ log' = Append(log, [op |-> "list", id |-> Top.pageId,
                           start_cursor |-> Top.startCursor, ok |-> FALSE,
                           has_more |-> FALSE, next_cursor |-> NoCursor,
                           results |-> <<>>])
    /\ UNCHANGED <<env, graph, target, target0, nextId, pc, visited, tree, pageCount,
                   blocks, pub, exitCode>>

\* lines 86-89: the listing call throws, the loop is left
ListChildrenFail ==
    /\ pc = "build" /\ stack # <<>> /\ Top.pc = "list"
    /\ faults < MaxFail
    /\ faults' = faults + 1
    /\ stack' = SetTop([Top EXCEPT !.pc = "loop"])
    /\ log' = Append(log, [op |-> "list", id |-> Top.pageId,
                           start_cursor |-> Top.startCursor, ok |-> FALSE,
                           has_more |-> FALSE, next_cursor |-> NoCursor,
                           results |-> <<>>])
    /\ UNCHANGED <<env, graph, target, target0, nextId, pc, visited, tree, pageCount,
                   blocks, pub, exitCode>>

\* lines 111-129 where a refused child leaves the loop where it is
LoopChildStuck ==
    /\ pc = "build" /\ stack # <<>> /\ Top.pc = "loop"
    /\ Top.i <= Len(Top.childItems)
    /\ LET child == Top.childItems[Top.i]
       IN  IF child.type = "page"
           THEN IF Refused(child.id, Top.depth + 1, visited)
                THEN UNCHANGED <<stack, visited>>
                ELSE /\ stack' = Append(stack, NewFrame(child.id, Top.depth + 1))
                     /\ visited' = visited \cup {child.id}
           ELSE /\ stack' = SetTop(Receive(Top, DatabaseLeaf(child, Top.depth)))
                /\ UNCHANGED visited
    /\ UNCHANGED <<env, graph, target, target0, nextId, pc, tree, pageCount, blocks, pub,
                   log, faults, exitCode>>

\* lines 111-129: one iteration of the for loop over childItems
LoopChild ==
    /\ pc = "build" /\ stack # <<>> /\ Top.pc = "loop"
    /\ Top.i <= Len(Top.childItems)
    /\ LET child == Top.childItems[Top.i]
       IN  IF child.type = "page"
           THEN IF Refused(child.id, Top.depth + 1, visited)
                THEN /\ stack' = SetTop(Receive(Top, NULL))
                     /\ UNCHANGED visited
                ELSE /\ stack' = Append(stack, NewFrame(child.id, Top.depth + 1))
                     /\ visited' = visited \cup {child.id}
           ELSE /\ stack' = SetTop(Receive(Top, DatabaseLeaf(child, Top.depth)))
                /\ UNCHANGED visited
    /\ UNCHANGED <<env, graph, target, target0, nextId, pc, tree, pageCount, blocks, pub,
                   log, faults, exitCode>>

\* lines 131-135: the for loop is over, the node is returned
BuildReturn ==
    /\ pc = "build" /\ stack # <<>> /\ Top.pc = "loop"
    /\ Top.i > Len(Top.childItems)
    /\ ReturnValue(PageNode(Top))
    /\ UNCHANGED <<env, graph, target, target0, nextId, visited, pageCount, blocks, pub,
                   log, faults, exitCode>>

Build ==
    \/ GetPageDetailsOk
    \/ GetPageDetailsFail
    \/ ListChildrenOk
    \/ ListChildrenFail
    \/ LoopChild
    \/ BuildReturn

---------------------------------------------------------------------------
(* Workspaces: a chain 0 -> 1 -> ... -> L of child pages and at most one    *)
(* more block on one page: a link to any page (a second parent, a cycle, a  *)
(* self reference) or a database, before or after the chain child, or after *)
(* PAGE_SIZE - 1 paragraphs, or followed by them, so that the listing spans *)
(* two result pages.                                                        *)

Padding == [n \in 1 .. (PAGE_SIZE - 1) |-> ParaBlock(n)]

Chain(L) == [p \in Pages |-> IF p < L THEN <<PageBlock(p + 1)>> ELSE <<>>]

ExtraBlocks == {PageBlock(p) : p \in Pages} \cup {DbBlock(""), DbBlock("DB")}

WithExtra(g, h, b, shape) ==
    [g EXCEPT ![h] = CASE shape = "front" -> <<b>> \o @
                       [] shape = "back" -> @ \o <<b>>
                       [] shape = "padded" -> Padding \o @ \o <<b>>
                       [] shape = "trailing" -> <<b>> \o @ \o Padding]

Graphs ==
    {Chain(L) : L \in Pages} \cup
    {WithExtra(Chain(L), h, b, s) :
        L \in Pages, h \in Pages, b \in ExtraBlocks,
        s \in {"front", "back", "padded", "trailing"}}

NoPub == [existing |-> <<>>, k |-> 1, allBlocks |-> <<>>, i |-> 0]

\* buildSitemapTree(ROOT_PAGE_ID) has just been called (line 285): depth 0,
\* a fresh visited set; the guard of line 99 passes and line 103 has run.
InitBuild ==
    /\ env = [root |-> TRUE, sitemap |-> TRUE, token |-> TRUE]
    /\ graph \in Graphs
    /\ target = <<>>
    /\ target0 = target
    /\ nextId = 1
    /\ pc = "build"
    /\ stack = <<NewFrame(ROOT_PAGE_ID, 0)>>
    /\ visited = {ROOT_PAGE_ID}
    /\ tree = NULL
    /\ pageCount = 0
    /\ blocks = <<>>
    /\ pub = NoPub
    /\ log = <<>>
    /\ faults = 0
    /\ exitCode = -1

SpecBuild == InitBuild /\ [][Build]_vars

\* The program is one thread of control: a remote call that is awaited
\* answers or throws, and the code after it runs.
SpecBuildFair == InitBuild /\ [][Build]_vars /\ WF_vars(Build)

---------------------------------------------------------------------------
(* treeToNotionBlocks and countPages, lines 141-204 and 267-270 *)

Emojis == <<"office", "folder", "page", "clip", "dot">>

\* lines 200-204
getEmojiForDepth(depth, type) ==
    IF type = "database" THEN "cabinet"
    ELSE Emojis[Min(depth, Len(Emojis) - 1) + 1]

\* lines 150-159
HeadingBlock(node, depth) ==
    [object |-> "block", type |-> "heading_1",
     rich_text |-> <<[content |-> <<getEmojiForDepth(depth, node.type), " ",
                                    node.title>>]>>]

\* lines 162-186
BulletBlock(node, depth) ==
    [object |-> "block", type |-> "bulleted_list_item",
     rich_text |->
        <<[content |-> <<getEmojiForDepth(depth, node.type), " ">>],
          [content |-> <<node.title>>, link |-> node.url, bold |-> (depth = 1)]>>
        \o (IF node.type = "database"
            THEN <<[content |-> <<" [DB]">>, italic |-> TRUE, color |-> "gray"]>>
            ELSE <<>>)]

\* lines 148-187
OwnBlock(node, depth) ==
    IF depth = 0 THEN HeadingBlock(node, depth) ELSE BulletBlock(node, depth)

RECURSIVE treeToNotionBlocks(_, _), BlocksOfAll(_, _)
\* lines 141-195 with the node's own block pushed after the loop of 190-192
treeToNotionBlocksLate(t, depth) ==
    IF t = NULL THEN <<>>
    ELSE BlocksOfAll(t.children, depth + 1) \o <<OwnBlock(t, depth)>>

\* lines 141-195
treeToNotionBlocks(t, depth) ==
    IF t = NULL THEN <<>>
    ELSE <<OwnBlock(t, depth)>> \o BlocksOfAll(t.children, depth + 1)
\* lines 190-192
BlocksOfAll(ts, depth) ==
    IF ts = <<>> THEN <<>>
    ELSE treeToNotionBlocks(Head(ts), depth) \o BlocksOfAll(Tail(ts), depth)

RECURSIVE countPages(_), CountAll(_)
\* lines 267-270
countPages(t) == IF t = NULL THEN 0 ELSE 1 + CountAll(t.children)
CountAll(ts) == IF ts = <<>> THEN 0 ELSE countPages(Head(ts)) + CountAll(Tail(ts))

\* lines 292-296: main counts, renders and calls updateSitemapPage
RenderTree ==
    /\ pc = "render"
    /\ pageCount' = countPages(tree)
    /\ blocks' = treeToNotionBlocks(tree, 0)
    /\ pc' = "publish"
    /\ UNCHANGED <<env, graph, target, target0, nextId, stack, visited, tree, pub,
                   log, faults, exitCode>>

---------------------------------------------------------------------------
(* updateSitemapPage, lines 209-262 *)

\* lines 226-244; the callout's text holds the time of the run
MetadataBlocks ==
    <<[object |-> "block", type |-> "callout"],
      [object |-> "block", type |-> "divider"]>>

\* line 250 with a batch one block too long
BatchOverlap(all, i) == SubSeq(all, i + 1, Min(i + BATCH_SIZE + 1, Len(all)))

\* line 250: allBlocks.slice(i, i + 100)
Batch(all, i) == SubSeq(all, i + 1, Min(i + BATCH_SIZE, Len(all)))

\* the remote appends the batch to the page and gives each block an id
Appended(page, batch, first) ==
    page \o [j \in 1 .. Len(batch) |->
                [id |-> first + j - 1, block |-> batch[j], locked |-> FALSE]]

\* the remote deletes a block of the page
Deleted(page, id) == SelectSeq(page, LAMBDA b : b.id # id)

\* lines 247-249, entered when the delete loop is over
StartAppending == [pub EXCEPT !.allBlocks = MetadataBlocks \o blocks, !.i = 0]

\* lines 212-214: the listing of the target page answers.  The request
\* names no page_size and no cursor: one result page of the remote's
\* default size, which is the size line 64 asks for.
PubListOk ==
    /\ pc = "publish"
    /\ LET response == RemoteList(target, NoCursor, PAGE_SIZE)
       IN  /\ log' = Append(log, [op |-> "listTarget", ok |-> TRUE,
                                  results |-> Ids(response.results)])
           /\ IF response.results = <<>>
              THEN /\ pub' = [StartAppending EXCEPT !.existing = <<>>]
                   /\ pc' = "append"
              ELSE /\ pub' = [pub EXCEPT !.existing = response.results, !.k = 1]
                   /\ pc' = "delete"
    /\ UNCHANGED <<env, graph, target, target0, nextId, stack, visited, tree,
                   pageCount, blocks, faults, exitCode>>

\* the listing throws: lines 258-260 rethrow, lines 302-305 exit
PubListFail ==
    /\ pc = "publish"
    /\ faults < MaxFail
    /\ faults' = faults + 1
    /\ log' = Append(log, [op |-> "listTarget", ok |-> FALSE, results |-> <<>>])
    /\ pc' = "exit"
    /\ exitCode' = 1
    /\ UNCHANGED <<env, graph, target, target0, nextId, stack, visited, tree,
                   pageCount, blocks, pub>>

\* lines 217-223: the loop goes on to the next listed block or ends
AfterDelete ==
    IF pub.k < Len(pub.existing)
    THEN [pc2 |-> "delete", pub2 |-> [pub EXCEPT !.k = @ + 1]]
    ELSE [pc2 |-> "append", pub2 |-> StartAppending]

\* line 219: the delete of the next listed block answers
PubDeleteOk ==
    /\ pc = "delete"
    /\ LET block == pub.existing[pub.k]
       IN  /\ ~block.locked
           /\ target' = Deleted(target, block.id)
           /\ log' = Append(log, [op |-> "delete", id |-> block.id, ok |-> TRUE])
    /\ pc' = AfterDelete.pc2
    /\ pub' = AfterDelete.pub2
    /\ UNCHANGED <<env, graph, target0, nextId, stack, visited, tree, pageCount,
                   blocks, faults, exitCode>>

\* lines 220-222: the delete throws (the remote refuses to delete the
\* block), a warning is printed and the loop goes on
PubDeleteFail ==
    /\ pc = "delete"
    /\ LET block == pub.existing[pub.k]
       IN  /\ block.locked
           /\ log' = Append(log, [op |-> "delete", id |-> block.id, ok |-> FALSE])
    /\ pc' = AfterDelete.pc2
    /\ pub' = AfterDelete.pub2
    /\ UNCHANGED <<env, graph, target, target0, nextId, stack, visited, tree,
                   pageCount, blocks, faults, exitCode>>

\* lines 249-257: one pass of the batch loop, the append answers; after the
\* last batch updateSitemapPage returns and main ends (line 298)
PubAppendOk ==
    /\ pc = "append"
    /\ LET batch == Batch(pub.allBlocks, pub.i)
       IN  /\ target' = Appended(target, batch, nextId)
           /\ nextId' = nextId + Len(batch)
           /\ log' = Append(log, [op |-> "append", ok |-> TRUE, children |-> batch])
    /\ pub' = [pub EXCEPT !.i = @ + BATCH_SIZE]
    /\ IF pub.i + BATCH_SIZE < Len(pub.allBlocks)
       THEN UNCHANGED <<pc, exitCode>>
       ELSE pc' = "done" /\ exitCode' = 0
    /\ UNCHANGED <<env, graph, target0, stack, visited, tree, pageCount, blocks,
                   faults>>

\* the append throws: lines 258-260 rethrow, lines 302-305 exit
PubAppendFail ==
    /\ pc = "append"
    /\ faults < MaxFail
    /\ faults' = faults + 1
    /\ log' = Append(log, [op |-> "append", ok |-> FALSE,
                           children |-> Batch(pub.allBlocks, pub.i)])
    /\ pc' = "exit"
    /\ exitCode' = 1
    /\ UNCHANGED <<env, graph, target, target0, nextId, stack, visited, tree,
                   pageCount, blocks, pub>>

Publish ==
    \/ PubListOk
    \/ PubListFail
    \/ PubDeleteOk
    \/ PubDeleteFail
    \/ PubAppendOk
    \/ PubAppendFail

\* a run of updateSitemapPage in which every remote call answers
PublishAnswered ==
    \/ PubListOk
    \/ PubDeleteOk
    \/ PubAppendOk

---------------------------------------------------------------------------
(* main, lines 275-305 *)

\* line 280
ConfigComplete == env.root /\ env.sitemap /\ env.token

\* lines 280-285: the configuration is complete, buildSitemapTree is called
\* with depth 0 and a new visited set (line 98), passes line 99, runs line 103
MainStart ==
    /\ pc = "start"
    /\ ConfigComplete
    /\ pc' = "build"
    /\ stack' = <<NewFrame(ROOT_PAGE_ID, 0)>>
    /\ visited' = {ROOT_PAGE_ID}
    /\ UNCHANGED <<env, graph, target, target0, nextId, tree, pageCount, blocks,
                   pub, log, faults, exitCode>>

\* lines 280-283
MainMissingConfig ==
    /\ pc = "start"
    /\ ~ConfigComplete
    /\ pc' = "exit"
    /\ exitCode' = 1
    /\ UNCHANGED <<env, graph, target, target0, nextId, stack, visited, tree,
                   pageCount, blocks, pub, log, faults>>

\* lines 287-290 without the test of line 287
MainBuiltUnchecked ==
    /\ pc = "built"
    /\ pc' = "render"
    /\ UNCHANGED <<env, graph, target, target0, nextId, stack, visited, tree,
                   pageCount, blocks, pub, log, faults, exitCode>>

\* lines 287-290
MainBuilt ==
    /\ pc = "built"
    /\ IF tree = NULL
       THEN pc' = "exit" /\ exitCode' = 1
       ELSE pc' = "render" /\ UNCHANGED exitCode
    /\ UNCHANGED <<env, graph, target, target0, nextId, stack, visited, tree,
                   pageCount, blocks, pub, log, faults>>

Next ==
    \/ MainStart
    \/ MainMissingConfig
    \/ Build
    \/ MainBuilt
    \/ RenderTree
    \/ Publish

---------------------------------------------------------------------------
(* Initial states *)

Configs == [root : BOOLEAN, sitemap : BOOLEAN, token : BOOLEAN]
FullConfig == [root |-> TRUE, sitemap |-> TRUE, token |-> TRUE]

\* a block that was on the target page before the run
OldBlock(n, locked) ==
    [id |-> -n, block |-> [object |-> "block", type |-> "paragraph"],
     locked |-> locked]

\* target pages of n old blocks; the remote refuses to delete those in `held`
TargetPage(n, held) == [j \in 1 .. n |-> OldBlock(j, j \in held)]

\* the workspaces of a run of main: the extra block sits on the root page
MainGraphs ==
    {Chain(L) : L \in Pages} \cup
    {WithExtra(Chain(L), ROOT_PAGE_ID, b, s) :
        L \in Pages, b \in ExtraBlocks, s \in {"front", "back", "padded", "trailing"}}

MainTargets ==
    {TargetPage(n, held) : n \in 0 .. MaxExisting, held \in SUBSET (1 .. MaxExisting)}

\* the process has loaded its environment (lines 1-9) and main is called.
\* With an incomplete configuration nothing remote is ever read: one
\* workspace stands for all.
Init ==
    /\ env \in Configs
    /\ graph \in (IF ConfigComplete THEN MainGraphs ELSE {Chain(0)})
    /\ target \in MainTargets
    /\ target0 = target
    /\ nextId = 1
    /\ pc = "start"
    /\ stack = <<>>
    /\ visited = {}
    /\ tree = NULL
    /\ pageCount = 0
    /\ blocks = <<>>
    /\ pub = NoPub
    /\ log = <<>>
    /\ faults = 0
    /\ exitCode = -1

Spec == Init /\ [][Next]_vars

(* Renderer inputs: every tree of at most MaxNodes nodes whose root is a   *)
(* page and whose leaves are pages or databases; a node's title is its     *)
(* path from the root.                                                     *)

RenderNode(path, type, children) ==
    [id |-> Len(path), title |-> ToString(path), url |-> UrlOf(Len(path)),
     type |-> type, children |-> children, depth |-> Len(path)]

RECURSIVE TreesAt(_, _), ForestsAt(_, _, _)
\* the trees of exactly n nodes rooted at `path`
TreesAt(n, path) ==
    IF n = 1
    THEN {RenderNode(path, t, <<>>) :
            t \in (IF path = <<>> THEN {"page"} ELSE {"page", "database"})}
    ELSE {RenderNode(path, "page", f) : f \in ForestsAt(n - 1, path, 1)}
\* the sequences of trees of n nodes in all, children j, j+1, ... of `path`
ForestsAt(n, path, j) ==
    IF n = 0 THEN {<<>>}
    ELSE UNION {{<<t>> \o f : t \in TreesAt(k, Append(path, j)),
                              f \in ForestsAt(n - k, path, j + 1)} : k \in 1 .. n}

RenderTrees == UNION {TreesAt(n, <<>>) : n \in 1 .. MaxNodes}

\* main is at line 292 with a tree
InitRender ==
    /\ env = FullConfig
    /\ graph = Chain(0)
    /\ target = <<>>
    /\ target0 = target
    /\ nextId = 1
    /\ pc = "render"
    /\ stack = <<>>
    /\ visited = {}
    /\ tree \in RenderTrees
    /\ pageCount = 0
    /\ blocks = <<>>
    /\ pub = NoPub
    /\ log = <<>>
    /\ faults = 0
    /\ exitCode = -1

SpecRender == InitRender /\ [][RenderTree]_vars

(* Publisher inputs: numbers of old blocks and of rendered blocks within   *)
(* MaxOver of 0 and of the edges of a listing page and of a batch.         *)

Around(c) == {n \in (c - MaxOver) .. (c + MaxOver) : n >= 0}
ExistingSizes == Around(0) \cup Around(PAGE_SIZE)
RenderedSizes ==
    Around(0) \cup Around(BATCH_SIZE - Len(MetadataBlocks))
              \cup Around(2 * BATCH_SIZE - Len(MetadataBlocks))

RenderedBlock(j) ==
    [object |-> "block", type |-> "bulleted_list_item",
     rich_text |-> <<[content |-> <<"dot", " ">>],
                     [content |-> <<ToString(j)>>, link |-> UrlOf(j),
                      bold |-> FALSE]>>]

HeldChoices(n) == {{}, {1} \cap (1 .. n), {n} \cap (1 .. n), {1, n} \cap (1 .. n)}

\* updateSitemapPage(blocks) has just been called
InitPublishWith(targets) ==
    /\ env = FullConfig
    /\ graph = Chain(0)
    /\ target \in targets
    /\ target0 = target
    /\ nextId = 1
    /\ pc = "publish"
    /\ stack = <<>>
    /\ visited = {}
    /\ tree = NULL
    /\ pageCount = 0
    /\ blocks \in {[j \in 1 .. m |-> RenderedBlock(j)] : m \in RenderedSizes}
    /\ pub = NoPub
    /\ log = <<>>
    /\ faults = 0
    /\ exitCode = -1

InitPublish ==
    InitPublishWith(UNION {{TargetPage(n, held) : held \in HeldChoices(n)} :
                              n \in ExistingSizes})

SpecPublish == InitPublish /\ [][Publish]_vars

\* every remote call of updateSitemapPage answers
InitWipe == InitPublishWith({TargetPage(n, {}) : n \in ExistingSizes})

SpecWipe == InitWipe /\ [][PublishAnswered]_vars

(* Lister inputs: listings of up to two result pages and a little more,    *)
(* of one block type or of the three types in turn.                        *)

BlockTypes == <<"child_page", "child_database", "paragraph">>

TypedBlock(t, n) ==
    CASE t = "child_page" -> PageBlock(n % NPages)
      [] t = "child_database" -> DbBlock(IF n % 2 = 0 THEN "" ELSE "DB")
      [] t = "paragraph" -> ParaBlock(n)

ListingSizes == Around(0) \cup Around(PAGE_SIZE) \cup Around(2 * PAGE_SIZE)

Listings ==
    {[j \in 1 .. n |-> TypedBlock(t, j)] : n \in ListingSizes, t \in Range(BlockTypes)}
    \cup {[j \in 1 .. n |-> TypedBlock(BlockTypes[((j + off) % 3) + 1], j)] :
            n \in ListingSizes, off \in 0 .. 2}

\* buildSitemapTree(ROOT_PAGE_ID) has fetched the page details and has
\* just called getChildPages (line 108)
InitList ==
    /\ env = FullConfig
    /\ graph \in {[Chain(0) EXCEPT ![ROOT_PAGE_ID] = l] : l \in Listings}
    /\ target = <<>>
    /\ target0 = target
    /\ nextId = 1
    /\ pc = "build"
    /\ stack = <<[NewFrame(ROOT_PAGE_ID, 0) EXCEPT
                     !.details = PageDetails(ROOT_PAGE_ID), !.pc = "list"]>>
    /\ visited = {ROOT_PAGE_ID}
    /\ tree = NULL
    /\ pageCount = 0
    /\ blocks = <<>>
    /\ pub = NoPub
    /\ log = <<[op |-> "getPageDetails", id |-> ROOT_PAGE_ID, ok |-> TRUE],
               [op |-> "getChildPages", id |-> ROOT_PAGE_ID]>>
    /\ faults = 0
    /\ exitCode = -1

ListChildren ==
    \/ ListChildrenOk
    \/ ListChildrenFail

SpecList == InitList /\ [][ListChildren]_vars

---------------------------------------------------------------------------
(* Reading a returned tree and the call history *)

RECURSIVE NodesOf(_), NodesOfAll(_)
\* every node of a tree, and of a sequence of trees
NodesOf(t) == <<t>> \o NodesOfAll(t.children)
NodesOfAll(ts) ==
    IF ts = <<>> THEN <<>> ELSE NodesOf(Head(ts)) \o NodesOfAll(Tail(ts))

TreeSeq == IF tree = NULL THEN <<>> ELSE NodesOf(tree)
TreeNodes == Range(TreeSeq)
TreePageNodes == {n \in TreeNodes : n.type = "page"}
TreePageIds == {n.id : n \in TreePageNodes}

Entries(op, id) == {j \in 1 .. Len(log) : log[j].op = op /\ log[j].id = id}
FailedDetails ==
    {log[j].id : j \in {x \in 1 .. Len(log) :
                          log[x].op = "getPageDetails" /\ ~log[x].ok}}
ListFailed(p) == \E j \in Entries("list", p) : ~log[j].ok

RECURSIVE Concat(_)
Concat(ss) == IF ss = <<>> THEN <<>> ELSE Head(ss) \o Concat(Tail(ss))

\* the blocks the listing calls for page p have delivered, in call order
Received(p) ==
    LET calls == SelectSeq(log, LAMBDA e : e.op = "list" /\ e.id = p /\ e.ok)
    IN  Concat([j \in 1 .. Len(calls) |-> calls[j].results])

RECURSIVE IsSubseq(_, _)
IsSubseq(s, t) ==
    IF s = <<>> THEN TRUE
    ELSE IF t = <<>> THEN FALSE
    ELSE IF Head(s) = Head(t) THEN IsSubseq(Tail(s), Tail(t))
    ELSE IsSubseq(s, Tail(t))

ChildPagesOf(listing) == {b.id : b \in {x \in Range(listing) : x.type = "child_page"}}

\* pages within d child_page links of the root in the workspace
RECURSIVE Within(_)
Within(d) ==
    IF d = 0 THEN {ROOT_PAGE_ID}
    ELSE LET prev == Within(d - 1)
         IN  prev \cup UNION {ChildPagesOf(graph[p]) : p \in prev}

Parents(p) == {q \in Pages : p \in ChildPagesOf(graph[q])}

---------------------------------------------------------------------------
(* C2: the returned tree is bounded in depth.  As stated (every node, page *)
(* or database leaf, has depth at most MAX_DEPTH) the claim is C2_Original.*)
C2_Original ==
    pc = "built" => \A n \in TreeNodes : n.depth <= MAX_DEPTH

\* C2 amended: page nodes have depth at most MAX_DEPTH, database leaves at
\* most MAX_DEPTH + 1.
C2_BoundedDepth ==
    pc = "built" =>
        \A n \in TreeNodes :
            /\ n.type = "page" => n.depth <= MAX_DEPTH
            /\ n.type = "database" => n.depth <= MAX_DEPTH + 1

C2_Witness ==
    /\ pc = "built"
    /\ \E n \in TreeNodes : n.type = "page" /\ n.depth = MAX_DEPTH
    /\ \E n \in TreeNodes : n.type = "database" /\ n.depth = MAX_DEPTH + 1
    /\ \E p \in Pages : p \notin TreePageIds /\ Parents(p) \cap TreePageIds # {}

(* C3: the build is cycle guarded: getPageDetails and getChildPages are    *)
(* entered at most once per page id, and a page id is the id of at most    *)
(* one page node of the returned tree.                                     *)
C3_CycleGuarded ==
    /\ \A p \in Pages :
        /\ Cardinality(Entries("getPageDetails", p)) <= 1
        /\ Cardinality(Entries("getChildPages", p)) <= 1
    /\ pc = "built" =>
        \A p \in Pages :
            Cardinality({j \in 1 .. Len(TreeSeq) :
                            TreeSeq[j].type = "page" /\ TreeSeq[j].id = p}) <= 1

\* a page on a cycle, listed by two pages, is in the returned tree
C3_Witness ==
    /\ pc = "built" /\ tree # NULL
    /\ \E p \in TreePageIds :
        /\ Cardinality(Parents(p)) >= 2
        /\ \E q \in Parents(p) : q \in ChildPagesOf(graph[p]) \/ q = p

(* C4: buildSitemapTree terminates on every workspace of the family, with  *)
(* cycles and self references, when every remote call answers or throws.   *)
C4_Terminates == <>(pc = "built")

\* a build over two pages that list each other (or a page listing itself)
\* has returned
C4_Witness ==
    /\ pc = "built" /\ tree # NULL
    /\ \E p \in TreePageIds : \E q \in TreePageIds :
        p \in ChildPagesOf(graph[q]) /\ q \in ChildPagesOf(graph[p])

(* C5: the tree mirrors the hierarchy.  With every remote call answering:  *)
(* every page within MAX_DEPTH child_page links of the root is in the      *)
(* tree; every page node's children are listed by it, in listing order,    *)
(* one level deeper; every child database of a page node is a childless    *)
(* leaf under it.                                                          *)
C5_Structure ==
    /\ tree # NULL /\ tree.depth = 0 /\ tree.id = ROOT_PAGE_ID
    /\ \A n \in TreePageNodes :
        LET listed == CollectChildren(graph[n.id])
            dbs == SelectSeq(listed, LAMBDA c : c.type = "database")
        IN  /\ IsSubseq(Ids(n.children), Ids(listed))
            /\ \A j \in 1 .. Len(n.children) : n.children[j].depth = n.depth + 1
            /\ SelectSeq(n.children, LAMBDA c : c.type = "database")
                 = [j \in 1 .. Len(dbs) |-> DatabaseLeaf(dbs[j], n.depth)]

\* C5: with every remote call answering, every page within MAX_DEPTH links
\* of the root is a page node of the returned tree, and the tree has the
\* structure of the listings (C5_Structure).
C5_Mirrors ==
    (pc = "built" /\ faults = 0) =>
        /\ \A p \in Within(MAX_DEPTH) : p \in TreePageIds
        /\ C5_Structure

(* C9: remote failures are contained per call.  A getPageDetails failure   *)
(* of a page other than the root leaves out that page only: the tree is    *)
(* not null and every page whose details were fetched is a page node of    *)
(* it; a page node holds, in order, children it received from its listing  *)
(* calls up to the first one that threw: every database among them as a    *)
(* leaf, every page among them (depth permitting) somewhere in the tree    *)
(* unless its own details failed.                                          *)
C9_Contained ==
    pc = "built" =>
        /\ ROOT_PAGE_ID \notin FailedDetails => tree # NULL
        /\ TreePageIds \cap FailedDetails = {}
        /\ \A p \in Pages : Entries("getChildPages", p) # {} => p \in TreePageIds
        /\ \A n \in TreePageNodes :
            LET got == CollectChildren(Received(n.id))
            IN  /\ IsSubseq(Ids(n.children), Ids(got))
                /\ \A j \in 1 .. Len(got) :
                    /\ got[j].type = "database" =>
                           DatabaseLeaf(got[j], n.depth) \in Range(n.children)
                    /\ (got[j].type = "page" /\ n.depth < MAX_DEPTH) =>
                           got[j].id \in TreePageIds \cup FailedDetails

\* one page's details failed while its sibling was kept with a subtree, and
\* one page's listing threw after it had delivered children
C9_Witness ==
    /\ pc = "built" /\ tree # NULL
    /\ \E n \in TreePageNodes : \E j \in 1 .. Len(n.children) :
        /\ n.children[j].type = "page" /\ n.children[j].children # <<>>
        /\ \E f \in FailedDetails :
               f # n.children[j].id /\ f \in Range(Ids(CollectChildren(Received(n.id))))
    /\ \E n \in TreePageNodes : ListFailed(n.id) /\ n.children # <<>>

(* C6: getChildPages is a complete paginated listing.  The first request   *)
(* carries no cursor, every later one follows an answer with has_more and  *)
(* carries its next_cursor; when no request threw, the last answer has     *)
(* has_more false, one request was made per result page, and the children  *)
(* returned are the child_page and child_database blocks of the whole      *)
(* listing, in order, each once, every other block left out.               *)
\* the child_page and child_database blocks of a listing as child items:
\* the k-th item comes from the k-th such block
ChildrenIn(bs) ==
    LET at == {j \in 1 .. Len(bs) : bs[j].type \in {"child_page", "child_database"}}
        nth(k) == CHOOSE j \in at : Cardinality({x \in at : x < j}) = k - 1
    IN  [k \in 1 .. Cardinality(at) |->
            [id |-> bs[nth(k)].id, title |-> bs[nth(k)].title,
             type |-> IF bs[nth(k)].type = "child_page" THEN "page" ELSE "database"]]

ListCalls(p) == SelectSeq(log, LAMBDA e : e.op = "list" /\ e.id = p)

ResultPages(listing) ==
    IF listing = <<>> THEN 1 ELSE (Len(listing) + PAGE_SIZE - 1) \div PAGE_SIZE

\* C6: the requests of getChildPages chain the cursors up to the answer
\* without has_more, and the children returned are those of the whole listing.
C6_CompleteListing ==
    \A d \in 1 .. Len(stack) :
        LET f == stack[d]
            calls == ListCalls(f.pageId)
        IN  /\ Len(calls) >= 1 => calls[1].start_cursor = NoCursor
            /\ \A j \in 2 .. Len(calls) :
                /\ calls[j - 1].ok /\ calls[j - 1].has_more
                /\ calls[j].start_cursor = calls[j - 1].next_cursor
            /\ (f.pc = "loop" /\ ~ListFailed(f.pageId)) =>
                /\ Len(calls) = ResultPages(graph[f.pageId])
                /\ ~calls[Len(calls)].has_more
                /\ f.childItems = ChildrenIn(graph[f.pageId])

\* a listing of three result pages has been read to its end; it holds
\* children of both kinds and blocks that are no children
C6_Witness ==
    /\ stack # <<>> /\ Top.pc = "loop" /\ ~ListFailed(Top.pageId)
    /\ Len(ListCalls(Top.pageId)) = 3
    /\ \E c \in Range(Top.childItems) : c.type = "page"
    /\ \E c \in Range(Top.childItems) : c.type = "database"
    /\ Len(Top.childItems) < Len(graph[Top.pageId])

(* C7: treeToNotionBlocks flattens the tree in pre-order: one block per    *)
(* node (as many as countPages counts); the block of the node at a path    *)
(* stands at the path's rank in the order "ancestors first, then siblings  *)
(* left to right"; the first block is a heading_1, the others are          *)
(* bulleted_list_items.                                                    *)
RECURSIVE PathsOf(_)
PathsOf(t) ==
    {<<>>} \cup UNION {{<<j>> \o q : q \in PathsOf(t.children[j])} :
                          j \in 1 .. Len(t.children)}

RECURSIVE NodeAt(_, _)
NodeAt(t, path) ==
    IF path = <<>> THEN t ELSE NodeAt(t.children[Head(path)], Tail(path))

\* p comes before q: p is a proper prefix of q, or p turns left of q where
\* they part
Before(p, q) ==
    \/ Len(p) < Len(q) /\ SubSeq(q, 1, Len(p)) = p
    \/ \E k \in 1 .. Min(Len(p), Len(q)) :
        /\ SubSeq(p, 1, k - 1) = SubSeq(q, 1, k - 1)
        /\ p[k] < q[k]

BlockTitle(b) ==
    IF b.type = "heading_1" THEN b.rich_text[1].content[3]
    ELSE b.rich_text[2].content[1]

Rendered == pc \notin {"start", "build", "built", "render"}

\* C7: the rendered blocks are the nodes of the tree in pre-order, a
\* heading_1 first and bulleted_list_items after it, countPages many.
C7_PreOrder ==
    (Rendered /\ tree # NULL) =>
        LET paths == PathsOf(tree)
        IN  /\ Len(blocks) = Cardinality(paths)
            /\ Len(blocks) = pageCount
            /\ \A p \in paths :
                LET rank == 1 + Cardinality({q \in paths : Before(q, p)})
                IN  BlockTitle(blocks[rank]) = NodeAt(tree, p).title
            /\ blocks[1].type = "heading_1"
            /\ \A j \in 2 .. Len(blocks) : blocks[j].type = "bulleted_list_item"

\* a rendered tree with siblings, of which the first has children
C7_Witness ==
    /\ Rendered /\ tree # NULL
    /\ Len(tree.children) >= 2
    /\ tree.children[1].children # <<>>
    /\ \E n \in TreeNodes : n.type = "database"
    /\ Len(blocks) >= 5

(* C1: when updateSitemapPage returns without throwing, the children of    *)
(* the target page are the two metadata blocks followed by the rendered    *)
(* blocks, and no block that was there before the run remains.             *)
C1_Wiped ==
    pc = "done" =>
        /\ [j \in 1 .. Len(target) |-> target[j].block] = MetadataBlocks \o blocks
        /\ Range(Ids(target)) \cap Range(Ids(target0)) = {}

(* C8: updateSitemapPage appends in batches after deleting: every append   *)
(* call carries 1 to BATCH_SIZE blocks, every call but the last one        *)
(* carries exactly BATCH_SIZE, the batches in call order make up the       *)
(* metadata blocks followed by the rendered blocks, and before the first   *)
(* append the delete of every listed block has been attempted.             *)
AppendCalls == SelectSeq(log, LAMBDA e : e.op = "append")
DeleteCalls == SelectSeq(log, LAMBDA e : e.op = "delete")
Sent == Concat([j \in 1 .. Len(AppendCalls) |-> AppendCalls[j].children])

\* C8: batches of 1 to BATCH_SIZE blocks, all but the last full, making up
\* metadata and rendered blocks in order, after every listed block's delete.
C8_Batches ==
    LET all == MetadataBlocks \o blocks
    IN  /\ \A j \in 1 .. Len(AppendCalls) :
            /\ Len(AppendCalls[j].children) \in 1 .. BATCH_SIZE
            /\ j < Len(AppendCalls) => Len(AppendCalls[j].children) = BATCH_SIZE
        /\ Len(Sent) <= Len(all) /\ Sent = SubSeq(all, 1, Len(Sent))
        /\ pc = "done" => Sent = all
        /\ \A a \in 1 .. Len(log) :
            log[a].op = "append" =>
                LET before == SubSeq(log, 1, a - 1)
                    lists == SelectSeq(before, LAMBDA e : e.op = "listTarget")
                IN  /\ Len(lists) = 1 /\ lists[1].ok
                    /\ Ids(SelectSeq(before, LAMBDA e : e.op = "delete"))
                         = lists[1].results

\* three batches have been appended after a full listing page of deletes,
\* one of which was refused
C8_Witness ==
    /\ pc = "done"
    /\ Len(AppendCalls) = 3
    /\ Len(AppendCalls[3].children) < BATCH_SIZE
    /\ Len(DeleteCalls) = PAGE_SIZE
    /\ \E j \in 1 .. Len(DeleteCalls) : ~DeleteCalls[j].ok

(* C10: the target page is written only after a build that returned a      *)
(* tree: no delete or append is issued before buildSitemapTree has         *)
(* returned a value that is not null; with a configuration value missing,  *)
(* or the root page not fetched, main ends with status 1, no write call    *)
(* issued and the target page as it was.                                   *)
WriteCalls == SelectSeq(log, LAMBDA e : e.op \in {"delete", "append"})

\* C10: no write call before a build that returned a tree; a missing
\* configuration value or an unfetched root ends in exit status 1 with no
\* write call and the target page unchanged.
C10_WritesAfterBuild ==
    /\ WriteCalls # <<>> =>
           tree # NULL /\ stack = <<>> /\ pc \notin {"start", "build", "built"}
    /\ WriteCalls = <<>> => target = target0
    /\ (~ConfigComplete /\ pc # "start") =>
           pc = "exit" /\ exitCode = 1 /\ log = <<>>
    /\ (ROOT_PAGE_ID \in FailedDetails /\ pc # "build") =>
           tree = NULL /\ WriteCalls = <<>>
    /\ (tree = NULL /\ pc \notin {"start", "build", "built"}) =>
           pc = "exit" /\ exitCode = 1 /\ WriteCalls = <<>>

\* a run has deleted and appended on the target page after a build that
\* lost a page to a failure
C10_Witness ==
    /\ pc = "done" /\ exitCode = 0
    /\ FailedDetails # {}
    /\ \E j \in 1 .. Len(WriteCalls) : WriteCalls[j].op = "delete"
    /\ Len(TreeSeq) >= 3

===========================================================================
